---- MODULE Spec2Model ----
(***************************************************************************)
(* Model of the four-agent travel-planner pipeline of src/a.py.            *)
(*                                                                         *)
(* create_plan is an asyncio coroutine.  It runs on one event loop, so a   *)
(* run executes without interruption from one suspension point (an         *)
(* `await asyncio.sleep(..)` inside an agent) to the next; several runs    *)
(* interleave only at those points.  Every action below is one such        *)
(* uninterrupted segment: the tail of the agent that wakes up, the return  *)
(* into create_plan, and the head of the next agent up to its own sleep.   *)
(*                                                                         *)
(* Not modelled: the HTML page, logging, the wall-clock string             *)
(* generated_at, the depart/arrive clock strings.                          *)
(***************************************************************************)
EXTENDS Integers, Sequences, FiniteSets, TLC

VARIABLES
    METRICS,      \* the module-level dict METRICS (a.py:27)
    pc,           \* per run: the agent whose asyncio.sleep the run is suspended in
    req,          \* per run: create_plan's argument req
    frame,        \* per run: the locals of the suspended agent coroutine
    planner_res,  \* per run: create_plan's local planner_res
    search_res,   \* per run: create_plan's local search_res
    budget_res,   \* per run: create_plan's local budget_res
    summary,      \* per run: create_plan's local summary
    response,     \* per run: the dict create_plan has returned
    active,       \* per run: the agents called and not yet returned
    order,        \* per run: the agents called so far, in call order
    u_pc,         \* direct calls: which of the two agents have been called
    u_req,        \* direct calls: the argument req
    u_search,     \* direct calls: the argument search_result
    u_budget,     \* direct calls: what budget_agent returned
    u_summary     \* direct calls: what summarizer_agent returned

pipeline_vars == <<METRICS, pc, req, frame, planner_res, search_res, budget_res,
                   summary, response, active, order>>

unit_vars == <<u_pc, u_req, u_search, u_budget, u_summary>>

vars == <<METRICS, pc, req, frame, planner_res, search_res, budget_res,
          summary, response, active, order,
          u_pc, u_req, u_search, u_budget, u_summary>>

(***************************************************************************)
(* Bounds                                                                  *)
(***************************************************************************)
\* number of create_plan invocations (requests) the model lets run
MaxRuns == 2

\* outcomes of the random source explored by the pipeline: seeds 0..MaxSeed
MaxSeed == 1

\* largest req.days handed directly to budget_agent / summarizer_agent
MaxDays == 4

\* largest number of places in a search result handed directly to an agent
MaxPlaces == 3

\* largest number of flights (and of hotels) in such a search result
MaxOptions == 2

Runs == 1..MaxRuns

Seeds == 0..MaxSeed

(***************************************************************************)
(* Values                                                                  *)
(***************************************************************************)
\* Python's None, for a local that has not been assigned yet
None == [none |-> TRUE]

\* the four agents, in the order create_plan awaits them
Stages == <<"planner", "search", "budget", "summarizer">>

\* The module-level dict METRICS is one heap object; an expression that
\* evaluates the name METRICS yields a reference to it, not a copy.
MetricsRef == [ref |-> "METRICS"]

\* the value seen through v: the dict's current content for the reference
Deref(v, metrics) == IF v = MetricsRef THEN metrics ELSE v

\* a request as the HTTP boundary hands it to create_plan: pydantic accepts
\* any integer for days and budget (the page sends parseInt of the input box)
PlanRequest(from_city, to_city, budget, days) ==
    [from_city |-> from_city, to_city |-> to_city, budget |-> budget, days |-> days]

\* the requests sent to POST /plan: days = 0, which the page can send, and
\* a trip longer than the five places search_agent returns
Requests ==
    { PlanRequest("Delhi", "Goa", 20000, d) : d \in {0, 7} }

(***************************************************************************)
(* Helpers                                                                 *)
(***************************************************************************)
Max(a, b) == IF a >= b THEN a ELSE b

\* the first element is taken for the cheapest
MinOf_first(s, d) == IF s = <<>> THEN d ELSE s[1]

RECURSIVE MinOf(_, _)
\* min(<generator>, default=d) over a sequence of integers
MinOf(s, d) ==
    IF s = <<>> THEN d
    ELSE IF Len(s) = 1 THEN s[1]
    ELSE LET m == MinOf(Tail(s), d) IN IF s[1] <= m THEN s[1] ELSE m

\* dict.get(key, default)
Get(d, key, default) == IF key \in DOMAIN d THEN d[key] ELSE default

\* a lost update: the value written back is computed from a stale read
Inc_stale(m, key) == [m EXCEPT ![key] = 1]

\* METRICS[key] += 1 : no await between the read and the write
Inc(m, key) == [m EXCEPT ![key] = @ + 1]

\* create_plan forgets to count the plan
count_plan_skipped(m) == m

\* the first statement of create_plan
count_plan(m) == Inc(m, "plans_created")

\* the first statement of each agent
count_agent_call(m) == Inc(m, "agent_calls")

\* the next agent is started without awaiting the one in flight
await_then_call_overlapped(inflight, returned, called) == inflight \cup {called}

\* `x = await a(..)` followed by `await b(x)`: a has returned when b starts
await_then_call(inflight, returned, called) == (inflight \ {returned}) \cup {called}

\* the k-th draw of the random source under a given seed
Bit(seed, k) == (seed \div (2 ^ k)) % 2

\* random.randint(lo, hi), sampled at the two ends of the range
RandInt(lo, hi, bit) == IF bit = 0 THEN lo ELSE hi

\* round(3 + random.random(), 1), in tenths, sampled at the two ends
Rating(bit) == IF bit = 0 THEN 30 ELSE 40

\* str(uuid.uuid4()): a fresh identifier per invocation
Uuid4(r) == "uuid-" \o ToString(r)

(***************************************************************************)
(* The agents' computations                                                *)
(***************************************************************************)
planner_tasks(request) ==
    [flight_query |-> "cheap flights from " \o request.from_city \o " to " \o request.to_city,
     hotel_query  |-> "budget hotels in " \o request.to_city,
     places_query |-> "top attractions in " \o request.to_city]

NumPlaces == 5

search_places(tasks, n) ==
    [i \in 1..n |-> tasks.places_query \o " - " \o ToString(i)]

search_result(tasks, seed) ==
    [flights |-> << [airline |-> "AirFast", price |-> RandInt(4000, 12000, Bit(seed, 0))],
                    [airline |-> "SkyGo",   price |-> RandInt(4500, 14000, Bit(seed, 1))] >>,
     hotels  |-> << [name |-> "Budget Inn",   price_per_night |-> RandInt(800, 2500, Bit(seed, 2)),
                     rating |-> Rating(Bit(seed, 3))],
                    [name |-> "Comfort Stay", price_per_night |-> RandInt(1500, 4000, Bit(seed, 4)),
                     rating |-> Rating(Bit(seed, 5))] >>,
     places  |-> search_places(tasks, NumPlaces)]

FoodPerDay == 400

TransportPerDay == 250

\* a total equal to the budget counts as over budget
budget_status_strict(total, budget) ==
    IF total < budget THEN "within_budget" ELSE "over_budget"

budget_status(total, budget) ==
    IF total <= budget THEN "within_budget" ELSE "over_budget"

budget_result(search, request) ==
    LET days            == Max(1, request.days)
        cheapest_flight == MinOf([i \in DOMAIN search.flights |-> search.flights[i].price], 0)
        cheapest_hotel  == MinOf([i \in DOMAIN search.hotels |-> search.hotels[i].price_per_night], 0)
        food            == FoodPerDay * days
        transport       == TransportPerDay * days
        total           == cheapest_flight + (cheapest_hotel * days) + food + transport
    IN  [total |-> total,
         status |-> budget_status(total, request.budget),
         breakdown |-> [flight |-> cheapest_flight, hotel_per_night |-> cheapest_hotel,
                        food |-> food, transport |-> transport]]

\* the place index is taken one day late
itinerary_entry_shifted(d, places) ==
    "Day " \o ToString(d + 1) \o ": " \o
        (IF places # <<>> THEN places[((d + 1) % Len(places)) + 1] ELSE "Local exploration")

\* the text of one itinerary line, for loop index d
itinerary_entry(d, places) ==
    "Day " \o ToString(d + 1) \o ": " \o
        (IF places # <<>> THEN places[(d % Len(places)) + 1] ELSE "Local exploration")

\* range(n + 1): one day too many
Range_inclusive(n) == 0..n

\* range(n): the loop indices 0 .. n-1, none when n <= 0
Range(n) == 0..(n - 1)

RECURSIVE itinerary_loop(_, _, _, _)
\* the for loop: append one entry per d in range(n), starting at index d
itinerary_loop(acc, d, n, places) ==
    IF d \notin Range(n) THEN acc
    ELSE itinerary_loop(Append(acc, itinerary_entry(d, places)), d + 1, n, places)

summarizer_itinerary(request, search) ==
    itinerary_loop(<<>>, 0, request.days, Get(search, "places", <<>>))

summarizer_summary(plan_id, request, search, budget, itinerary) ==
    [plan_id |-> plan_id, from |-> request.from_city, to |-> request.to_city,
     flights |-> search.flights, hotels |-> search.hotels,
     itinerary |-> itinerary, budget |-> budget]

\* the dict create_plan returns; "metrics" holds the global dict itself
create_plan_response(s, p, sr, b) ==
    [summary |-> s,
     raw |-> [planner |-> p, search |-> sr, budget |-> b],
     metrics |-> MetricsRef]

(***************************************************************************)
(* Initial state: the module has been imported, no request has arrived     *)
(***************************************************************************)
UnitIdle ==
    /\ u_pc = "off"
    /\ u_req = None
    /\ u_search = None
    /\ u_budget = None
    /\ u_summary = None

PipelineIdle ==
    /\ pc = [r \in Runs |-> "idle"]
    /\ req = [r \in Runs |-> None]
    /\ frame = [r \in Runs |-> None]
    /\ planner_res = [r \in Runs |-> None]
    /\ search_res = [r \in Runs |-> None]
    /\ budget_res = [r \in Runs |-> None]
    /\ summary = [r \in Runs |-> None]
    /\ response = [r \in Runs |-> None]
    /\ active = [r \in Runs |-> {}]
    /\ order = [r \in Runs |-> <<>>]

Init ==
    /\ METRICS = [plans_created |-> 0, agent_calls |-> 0]
    /\ PipelineIdle
    /\ UnitIdle

(***************************************************************************)
(* create_plan, one action per uninterrupted segment                       *)
(***************************************************************************)
\* POST /plan arrives: create_plan up to the sleep inside planner_agent
create_plan(r, request) ==
    /\ pc[r] = "idle"
    /\ METRICS' = count_agent_call(count_plan(METRICS))
    /\ req' = [req EXCEPT ![r] = request]
    /\ frame' = [frame EXCEPT ![r] = [req |-> request, tasks |-> planner_tasks(request)]]
    /\ active' = [active EXCEPT ![r] = @ \cup {"planner"}]
    /\ order' = [order EXCEPT ![r] = Append(@, "planner")]
    /\ pc' = [pc EXCEPT ![r] = "planner"]
    /\ UNCHANGED <<planner_res, search_res, budget_res, summary, response>>
    /\ UNCHANGED unit_vars

\* planner_agent wakes and returns; search_agent runs up to its sleep
planner_wake(r) ==
    /\ pc[r] = "planner"
    /\ LET res == [tasks |-> frame[r].tasks]
       IN  /\ planner_res' = [planner_res EXCEPT ![r] = res]
           /\ frame' = [frame EXCEPT ![r] = [tasks |-> res.tasks]]
    /\ METRICS' = count_agent_call(METRICS)
    /\ active' = [active EXCEPT ![r] = await_then_call(@, "planner", "search")]
    /\ order' = [order EXCEPT ![r] = Append(@, "search")]
    /\ pc' = [pc EXCEPT ![r] = "search"]
    /\ UNCHANGED <<req, search_res, budget_res, summary, response>>
    /\ UNCHANGED unit_vars

\* search_agent wakes, draws its results and returns; budget_agent runs up
\* to its sleep
search_wake(r) ==
    /\ pc[r] = "search"
    /\ \E seed \in Seeds :
         LET res == search_result(frame[r].tasks, seed)
         IN  /\ search_res' = [search_res EXCEPT ![r] = res]
             /\ frame' = [frame EXCEPT ![r] =
                            [search_result |-> res, req |-> req[r],
                             result |-> budget_result(res, req[r])]]
    /\ METRICS' = count_agent_call(METRICS)
    /\ active' = [active EXCEPT ![r] = await_then_call(@, "search", "budget")]
    /\ order' = [order EXCEPT ![r] = Append(@, "budget")]
    /\ pc' = [pc EXCEPT ![r] = "budget"]
    /\ UNCHANGED <<req, planner_res, budget_res, summary, response>>
    /\ UNCHANGED unit_vars

\* budget_agent wakes and returns; create_plan returns an envelope at once,
\* without a summary
budget_wake_returns_early(r) ==
    /\ pc[r] = "budget"
    /\ budget_res' = [budget_res EXCEPT ![r] = frame[r].result]
    /\ response' = [response EXCEPT ![r] =
                      create_plan_response(None, planner_res[r], search_res[r], frame[r].result)]
    /\ frame' = [frame EXCEPT ![r] = None]
    /\ active' = [active EXCEPT ![r] = @ \ {"budget"}]
    /\ pc' = [pc EXCEPT ![r] = "done"]
    /\ UNCHANGED <<METRICS, req, planner_res, search_res, summary, order>>
    /\ UNCHANGED unit_vars

\* budget_agent wakes and returns; summarizer_agent runs up to its sleep
budget_wake(r) ==
    /\ pc[r] = "budget"
    /\ LET res == frame[r].result
       IN  /\ budget_res' = [budget_res EXCEPT ![r] = res]
           /\ frame' = [frame EXCEPT ![r] =
                          [req |-> req[r], search_result |-> search_res[r],
                           budget_result |-> res, plan_id |-> Uuid4(r),
                           itinerary |-> summarizer_itinerary(req[r], search_res[r])]]
    /\ METRICS' = count_agent_call(METRICS)
    /\ active' = [active EXCEPT ![r] = await_then_call(@, "budget", "summarizer")]
    /\ order' = [order EXCEPT ![r] = Append(@, "summarizer")]
    /\ pc' = [pc EXCEPT ![r] = "summarizer"]
    /\ UNCHANGED <<req, planner_res, search_res, summary, response>>
    /\ UNCHANGED unit_vars

\* summarizer_agent wakes and returns; create_plan builds the response and
\* returns it
summarizer_wake(r) ==
    /\ pc[r] = "summarizer"
    /\ LET s == summarizer_summary(frame[r].plan_id, frame[r].req, frame[r].search_result,
                                   frame[r].budget_result, frame[r].itinerary)
       IN  /\ summary' = [summary EXCEPT ![r] = s]
           /\ response' = [response EXCEPT ![r] =
                             create_plan_response(s, planner_res[r], search_res[r], budget_res[r])]
    /\ frame' = [frame EXCEPT ![r] = None]
    /\ active' = [active EXCEPT ![r] = @ \ {"summarizer"}]
    /\ pc' = [pc EXCEPT ![r] = "done"]
    /\ UNCHANGED <<METRICS, req, planner_res, search_res, budget_res, order>>
    /\ UNCHANGED unit_vars

\* the event loop resumes the suspended coroutine of run r
Wake(r) ==
    \/ planner_wake(r)
    \/ search_wake(r)
    \/ budget_wake(r)
    \/ summarizer_wake(r)

Next ==
    \/ \E r \in Runs, request \in Requests : create_plan(r, request)
    \/ \E r \in Runs : Wake(r)

Spec == Init /\ [][Next]_vars

\* asyncio.sleep timers expire and the loop resumes every suspended run
FairSpec == Spec /\ \A r \in Runs : WF_vars(Wake(r))

(***************************************************************************)
(* budget_agent and summarizer_agent called directly, on any search result *)
(* and request: the inputs are drawn in the initial state.                 *)
(***************************************************************************)
SeqsUpTo(S, n) == UNION { [1..k -> S] : k \in 0..n }

UnitFlights ==
    { [i \in DOMAIN prices |-> [airline |-> "Airline-" \o ToString(i), price |-> prices[i]]] :
        prices \in SeqsUpTo({4000, 5000}, MaxOptions) }

UnitHotels ==
    { [i \in DOMAIN prices |-> [name |-> "Hotel-" \o ToString(i), price_per_night |-> prices[i],
                                rating |-> Rating(0)]] :
        prices \in SeqsUpTo({1000, 1500}, MaxOptions) }

\* search results with 0..MaxPlaces places, and ones without the key "places"
UnitSearchResults ==
    { [flights |-> f, hotels |-> h,
       places |-> search_places(planner_tasks(PlanRequest("Delhi", "Goa", 0, 1)), k)] :
        f \in UnitFlights, h \in UnitHotels, k \in 0..MaxPlaces }
    \cup { [flights |-> f, hotels |-> h] : f \in UnitFlights, h \in UnitHotels }

\* requests handed directly to the two agents, days < 1 included
UnitRequests ==
    { PlanRequest("Delhi", "Goa", b, d) : b \in {650, 8950, 20000}, d \in (-1)..MaxDays }

InitFn ==
    /\ METRICS = [plans_created |-> 0, agent_calls |-> 0]
    /\ PipelineIdle
    /\ u_pc = "input"
    /\ u_req \in UnitRequests
    /\ u_search \in UnitSearchResults
    /\ u_budget = None
    /\ u_summary = None

\* await budget_agent(u_search, u_req), run to completion
unit_budget ==
    /\ u_pc = "input"
    /\ METRICS' = count_agent_call(METRICS)
    /\ u_budget' = budget_result(u_search, u_req)
    /\ u_pc' = "budgeted"
    /\ UNCHANGED <<u_req, u_search, u_summary>>
    /\ UNCHANGED <<pc, req, frame, planner_res, search_res, budget_res, summary, response,
                   active, order>>

\* await summarizer_agent(u_req, u_search, u_budget), run to completion
unit_summarize ==
    /\ u_pc = "budgeted"
    /\ METRICS' = count_agent_call(METRICS)
    /\ u_summary' = summarizer_summary(Uuid4(0), u_req, u_search, u_budget,
                                       summarizer_itinerary(u_req, u_search))
    /\ u_pc' = "summarized"
    /\ UNCHANGED <<u_req, u_search, u_budget>>
    /\ UNCHANGED <<pc, req, frame, planner_res, search_res, budget_res, summary, response,
                   active, order>>

NextFn ==
    \/ unit_budget
    \/ unit_summarize

SpecFn == InitFn /\ [][NextFn]_vars

(***************************************************************************)
(* Properties                                                              *)
(***************************************************************************)
InFlight(r) == pc[r] \notin {"idle", "done"}

Completed == { r \in Runs : pc[r] = "done" }

Started == { r \in Runs : pc[r] # "idle" }

RECURSIVE SumOver(_, _)
SumOver(S, f) ==
    IF S = {} THEN 0
    ELSE LET x == CHOOSE y \in S : TRUE IN f[x] + SumOver(S \ {x}, f)

\* stages run r has entered so far
Entered == [r \in Runs |-> Len(order[r])]

\* stages an in-flight run has still to enter
NotEntered == [r \in Runs |-> IF InFlight(r) THEN Len(Stages) - Len(order[r]) ELSE 0]

IsPrefix(s, t) == Len(s) <= Len(t) /\ \A i \in 1..Len(s) : s[i] = t[i]

\* C1: every started run has added exactly 1 to plans_created and exactly 1
\* to agent_calls per stage it has entered, whatever the interleaving; so
\* once the N started runs have all completed, agent_calls = 4*N and
\* plans_created = N.
C1_CountersExact ==
    /\ METRICS.plans_created = Cardinality(Started)
    /\ METRICS.agent_calls = SumOver(Runs, Entered)
    /\ (\A r \in Runs : ~InFlight(r)) =>
          /\ METRICS.agent_calls = 4 * Cardinality(Completed)
          /\ METRICS.plans_created = Cardinality(Completed)

\* several runs have completed
C1_Witness ==
    /\ Cardinality(Completed) >= 2
    /\ \A r \in Runs : ~InFlight(r)
    /\ METRICS.agent_calls = 4 * Cardinality(Completed)

\* C2: a BudgetResult's total is flight + hotel_per_night*days + food +
\* transport, with food = 400*days and transport = 250*days for the day
\* count days = max(1, req.days) of the budget stage, and its status is
\* within_budget exactly when total <= req.budget.
C2_BudgetTotalAndStatus ==
    u_pc \in {"budgeted", "summarized"} =>
        LET b == u_budget
            days == Max(1, u_req.days)
        IN  /\ b.breakdown.food = 400 * days
            /\ b.breakdown.transport = 250 * days
            /\ b.total = b.breakdown.flight + b.breakdown.hotel_per_night * days
                           + b.breakdown.food + b.breakdown.transport
            /\ b.status \in {"within_budget", "over_budget"}
            /\ (b.status = "within_budget") <=> (b.total <= u_req.budget)

\* the boundary: a total equal to the budget is within budget
C2_Witness ==
    /\ u_pc = "budgeted"
    /\ u_budget.total = u_req.budget
    /\ u_budget.breakdown.flight > 0
    /\ u_budget.status = "within_budget"

\* C3: for a valid request (days = n >= 1) the summary's itinerary has
\* exactly n entries, whatever the number of places.
C3_ItineraryLength ==
    (u_pc = "summarized" /\ u_req.days >= 1) =>
        Len(u_summary.itinerary) = u_req.days

\* more days than places, and at least one place
C3_Witness ==
    /\ u_pc = "summarized"
    /\ "places" \in DOMAIN u_search
    /\ Len(u_search.places) >= 2
    /\ u_req.days > Len(u_search.places)
    /\ Len(u_summary.itinerary) = u_req.days

\* the day count the budget stage used, read back from its result
BudgetDays(b) == b.breakdown.food \div FoodPerDay

\* C4: every request that reaches a stage has days >= 1, and the day count
\* of the budget stage equals the itinerary length, both at least 1.
C4_DaysCoerced ==
    \A r \in Runs :
        /\ pc[r] # "idle" => req[r].days >= 1
        /\ pc[r] = "done" =>
              /\ Len(summary[r].itinerary) = BudgetDays(budget_res[r])
              /\ Len(summary[r].itinerary) >= 1

\* C5: within one run the stages are entered in the order planner, search,
\* budget, summarizer; a stage is entered only when the previous one has
\* returned, so at most one stage of a run is in flight, and it is the last
\* one entered; each stage is called with the previous stages' results.
C5_StagesInOrder ==
    \A r \in Runs :
        /\ Cardinality(active[r]) <= 1
        /\ IsPrefix(order[r], Stages)
        /\ \A st \in active[r] : order[r] # <<>> /\ st = order[r][Len(order[r])]
        /\ InFlight(r) => active[r] = {pc[r]}
        /\ pc[r] = "planner" => frame[r].req = req[r]
        /\ pc[r] = "search" => frame[r].tasks = planner_res[r].tasks
        /\ pc[r] = "budget" =>
              /\ frame[r].search_result = search_res[r]
              /\ frame[r].req = req[r]
        /\ pc[r] = "summarizer" =>
              /\ frame[r].req = req[r]
              /\ frame[r].search_result = search_res[r]
              /\ frame[r].budget_result = budget_res[r]

\* two runs are in flight at once, at different stages
C5_Witness ==
    \E r1, r2 \in Runs :
        /\ pc[r1] = "summarizer"
        /\ pc[r2] = "search"

\* the metrics an envelope shows to whoever reads it
EnvelopeMetrics(envelope, metrics) == Deref(envelope.metrics, metrics)

\* C6: once a run has returned, the plans_created and agent_calls held in
\* its envelope never change.
C6_EnvelopeIsSnapshot ==
    [][\A r \in Runs :
          pc[r] = "done" =>
             EnvelopeMetrics(response'[r], METRICS') = EnvelopeMetrics(response[r], METRICS)]_vars

\* a run returns an envelope only when all four stages have completed
NoPartialResult ==
    \A r \in Runs :
        response[r] # None =>
            /\ pc[r] = "done"
            /\ order[r] = Stages
            /\ active[r] = {}
            /\ response[r].summary = summary[r]
            /\ summary[r] # None
            /\ response[r].raw.planner # None
            /\ response[r].raw.search # None
            /\ response[r].raw.budget # None
            /\ response[r].summary.budget = budget_res[r]

\* C7: every started run eventually returns an envelope, and an envelope
\* is never returned before all four stages have completed.
C7_RunsComplete ==
    /\ \A r \in Runs : (pc[r] # "idle") ~> (pc[r] = "done" /\ response[r] # None)
    /\ []NoPartialResult

\* a run has returned while another one is still in flight
C7_Witness ==
    \E r1, r2 \in Runs :
        /\ response[r1] # None
        /\ InFlight(r2)

Prices(flights) == { flights[i].price : i \in DOMAIN flights }

NightPrices(hotels) == { hotels[i].price_per_night : i \in DOMAIN hotels }

\* m is the least element of S, or 0 when S is empty
IsMinOrZero(m, S) ==
    IF S = {} THEN m = 0 ELSE m \in S /\ \A x \in S : m <= x

\* C8: breakdown.flight is the least flight price and hotel_per_night the
\* least price_per_night, each 0 for an empty collection; flights
\* [4000, 5000], hotels [1000, 1500], 3 days, budget 20000 give 8950 within
\* budget, and 1 day with no flights and no hotels gives 650.
C8_CheapestWithDefault ==
    u_pc \in {"budgeted", "summarized"} =>
        /\ u_budget # None
        /\ IsMinOrZero(u_budget.breakdown.flight, Prices(u_search.flights))
        /\ IsMinOrZero(u_budget.breakdown.hotel_per_night, NightPrices(u_search.hotels))
        /\ ( /\ [i \in DOMAIN u_search.flights |-> u_search.flights[i].price] = <<4000, 5000>>
             /\ [i \in DOMAIN u_search.hotels |-> u_search.hotels[i].price_per_night] = <<1000, 1500>>
             /\ u_req.days = 3
             /\ u_req.budget = 20000 )
           => /\ u_budget.total = 8950
              /\ u_budget.status = "within_budget"
              /\ u_budget.breakdown = [flight |-> 4000, hotel_per_night |-> 1000,
                                       food |-> 1200, transport |-> 750]
        /\ (u_search.flights = <<>> /\ u_search.hotels = <<>> /\ u_req.days = 1)
           => /\ u_budget.total = 650
              /\ u_budget.breakdown.flight = 0
              /\ u_budget.breakdown.hotel_per_night = 0

\* the degenerate input: no flights, no hotels, one day
C8_Witness ==
    /\ u_pc = "budgeted"
    /\ u_search.flights = <<>>
    /\ u_search.hotels = <<>>
    /\ u_req.days = 1
    /\ u_budget.total = 650

\* C9: itinerary entry d (0 <= d < req.days) is "Day {d+1}: " followed by
\* places[d mod len(places)] when there are places and by
\* "Local exploration" when places is empty or absent, in day order.
C9_ItineraryEntries ==
    u_pc = "summarized" =>
        LET places == IF "places" \in DOMAIN u_search THEN u_search.places ELSE <<>>
            it == u_summary.itinerary
        IN  \A d \in 0..(u_req.days - 1) :
               /\ d + 1 \in DOMAIN it
               /\ it[d + 1] = "Day " \o ToString(d + 1) \o ": " \o
                     (IF Len(places) > 0
                        THEN places[(d % Len(places)) + 1]
                        ELSE "Local exploration")

\* the first place is used again on the day after the last place
C9_Witness ==
    /\ u_pc = "summarized"
    /\ "places" \in DOMAIN u_search
    /\ Len(u_search.places) = 3
    /\ u_req.days = 4
    /\ u_summary.itinerary[4] = "Day 4: top attractions in Goa - 1"

\* C10 as stated: agent_calls = 4 * plans_created minus the stages in-flight
\* runs have not entered yet, and the two are 4:1 exactly when no run is in
\* flight.
C10_RatioExactlyWhenIdle ==
    /\ METRICS.agent_calls <= 4 * METRICS.plans_created
    /\ METRICS.agent_calls = 4 * METRICS.plans_created - SumOver(Runs, NotEntered)
    /\ (METRICS.agent_calls = 4 * METRICS.plans_created) <=> (\A r \in Runs : ~InFlight(r))

C10_Ratio ==
    /\ METRICS.agent_calls <= 4 * METRICS.plans_created
    /\ METRICS.agent_calls = 4 * METRICS.plans_created - SumOver(Runs, NotEntered)
    /\ (\A r \in Runs : ~InFlight(r)) => METRICS.agent_calls = 4 * METRICS.plans_created
    /\ (METRICS.agent_calls = 4 * METRICS.plans_created)
          <=> (\A r \in Runs : InFlight(r) => pc[r] = "summarizer")

C10_Monotone ==
    /\ METRICS'.agent_calls >= METRICS.agent_calls
    /\ METRICS'.plans_created >= METRICS.plans_created

\* C10, amended: agent_calls = 4 * plans_created minus the stages in-flight
\* runs have not entered yet; the two are 4:1 whenever no run is in flight
\* and, more generally, exactly when every in-flight run has entered its
\* last stage; neither counter ever decreases.
C10_RatioAmended == []C10_Ratio /\ [][C10_Monotone]_vars

\* the counters are 4:1 while a run is still in flight
C10_Witness ==
    /\ \E r \in Runs : pc[r] = "summarizer"
    /\ METRICS.agent_calls = 4 * METRICS.plans_created

====
